---- MODULE Spec2Model ----
(***************************************************************************)
(* Model of class Scene (src/src/scene.hxx): the owner of the geometry     *)
(* aggregate, the material table, the light collection, the                *)
(* Material->Light index and the scene sphere, with its ray queries.       *)
(*                                                                         *)
(* Conventions                                                             *)
(*  - Pointers are indices into `heap` (the objects created with new);     *)
(*    NULL is 0.  heap[p].deleted counts the delete-expressions applied    *)
(*    to object p.                                                         *)
(*  - Vec3f is a triple of integers in fixed point, 1 unit = 0.01.         *)
(*  - A primitive is kept as its material id and its bounding box, which   *)
(*    is all that GrowBBox and the material lookup read.                   *)
(*  - A ray query is posed on the line through the query point: the        *)
(*    primitives the line crosses are given by their signed coordinate on  *)
(*    that line (the query point is coordinate 0, the direction is a unit  *)
(*    vector), in units of EPS_RAY / 2.                                    *)
(*  - Undefined behaviour (a call through a NULL mGeometry, an index       *)
(*    outside mLights) is a choice between a fault and an arbitrary value. *)
(***************************************************************************)
EXTENDS Integers, Sequences, FiniteSets, TLC

VARIABLES
    pc,               \* "live", "destroyed" (after ~Scene) or "fault"
    heap,             \* objects created with new: <<[kind, deleted]>>
    mGeometry,        \* AbstractGeometry*: index into heap, 0 = NULL
    geometry,         \* GeometryList::mGeometry of *mGeometry: its primitives
    mCamera,          \* TRUE once mCamera.Setup has run
    mMaterials,       \* std::vector<Material>, by the comment that names each
    mLights,          \* std::vector<AbstractLight*>
    mMaterial2Light,  \* std::map<int,int>
    mSceneSphere,     \* SceneSphere
    mBackground,      \* BackgroundLight*
    call              \* the last query made and what it returned

vars == <<pc, heap, mGeometry, geometry, mCamera, mMaterials, mLights,
          mMaterial2Light, mSceneSphere, mBackground, call>>

NULL == 0

\* ------------------------------------------------------------------ bounds
\* Capacity of the heap: the number of objects new may create in one run.
MaxObjects == 6
\* Largest coordinate on a query line, and largest aTMax, in units of EPS_RAY/2.
MaxDist == 8
\* Light indices passed to GetLightPtr range over -MaxIdxSlack .. count + MaxIdxSlack.
MaxIdxSlack == 5

\* ------------------------------------------------------- enum BoxMask
LightCeiling    == 1
LightSun        == 2
LightPoint      == 4
LightBackground == 8
BallLargeMirror == 16
BallLargeGlass  == 32
BallMirror      == 64
BallGlass       == 128
Default         == LightCeiling + BallMirror + BallGlass
BothLargeBalls  == BallLargeMirror + BallLargeGlass

\* aBoxMask & flag, for a flag that is a single bit
Has(aBoxMask, flag) == (aBoxMask \div flag) % 2 = 1

\* the values of the uint aBoxMask that differ in a bit LoadCornellBox reads
BoxMasks == 0 .. (2 * BallGlass - 1)

\* ------------------------------------------------------------ Vec3f
VAdd(a, b) == <<a[1] + b[1], a[2] + b[2], a[3] + b[3]>>
VSub(a, b) == <<a[1] - b[1], a[2] - b[2], a[3] - b[3]>>
\* (a * (1.f / n)) in fixed point
VDiv(a, n) == <<a[1] \div n, a[2] \div n, a[3] \div n>>
LenSqr(a)  == a[1] * a[1] + a[2] * a[2] + a[3] * a[3]
Min2(x, y) == IF x < y THEN x ELSE y
Max2(x, y) == IF x > y THEN x ELSE y
VMin(a, b) == <<Min2(a[1], b[1]), Min2(a[2], b[2]), Min2(a[3], b[3])>>
VMax(a, b) == <<Max2(a[1], b[1]), Max2(a[2], b[2]), Max2(a[3], b[3])>>

RECURSIVE SqrtSearch(_, _, _)
SqrtSearch(n, lo, hi) ==
    IF lo >= hi THEN lo
    ELSE LET mid == (lo + hi + 1) \div 2
         IN  IF mid * mid <= n THEN SqrtSearch(n, mid, hi)
                               ELSE SqrtSearch(n, lo, mid - 1)
\* std::sqrt, rounded down to the fixed-point grid
Sqrt(n) == SqrtSearch(n, 0, Min2(n, 46340))

\* --------------------------------------------------------- primitives
Triangle(a, b, c, aMatID) ==
    [matID |-> aMatID, lo |-> VMin(a, VMin(b, c)), hi |-> VMax(a, VMax(b, c))]
Sphere(aCenter, aRadius, aMatID) ==
    [matID |-> aMatID,
     lo |-> VSub(aCenter, <<aRadius, aRadius, aRadius>>),
     hi |-> VAdd(aCenter, <<aRadius, aRadius, aRadius>>)]

\* GeometryList::GrowBBox: every primitive grows the running box
RECURSIVE GrowBBox(_, _)
GrowBBox(prims, box) ==
    IF prims = <<>> THEN box
    ELSE GrowBBox(Tail(prims),
                  [lo |-> VMin(box.lo, Head(prims).lo),
                   hi |-> VMax(box.hi, Head(prims).hi)])

\* ---------------------------------------------------------------- heap
NewObj(h, aKind) == Append(h, [kind |-> aKind, deleted |-> 0])
\* delete p; delete of a null pointer does nothing
Delete(h, p) == IF p = NULL THEN h ELSE [h EXCEPT ![p].deleted = @ + 1]

\* std::vector::resize(n): cut to n elements, or fill up with null pointers
Resize(v, n) ==
    IF Len(v) >= n THEN SubSeq(v, 1, n)
    ELSE v \o [i \in 1 .. (n - Len(v)) |-> NULL]

\* std::map::insert(std::make_pair(k, v)): an existing key keeps its value
EmptyMap == [k \in {} |-> 0]
Insert(m, k, v) ==
    IF k \in DOMAIN m THEN m
    ELSE [x \in DOMAIN m \cup {k} |-> IF x = k THEN v ELSE m[x]]

\* ------------------------------------------------- LoadCornellBox, parts
\* "Cannot have both large balls, using mirror"
ResolveMask(aBoxMask) ==
    IF Has(aBoxMask, BallLargeMirror) /\ Has(aBoxMask, BallLargeGlass)
    THEN aBoxMask - BallLargeGlass
    ELSE aBoxMask

\* the eight materials pushed, by their comments
CornellMaterials ==
    <<"light1", "light2", "glossy white floor", "diffuse green left wall",
      "diffuse red right wall", "diffuse white back wall", "mirror ball",
      "glass ball">>

\* Vec3f p[8], with p[0] at index 1
CornellP ==
    << <<-127,  130, -128>>, << 129,  130, -128>>,
       << 129,  130,  128>>, <<-127,  130,  128>>,
       <<-127, -126, -128>>, << 129, -126, -128>>,
       << 129, -126,  128>>, <<-127, -126,  128>> >>
P(i) == CornellP[i + 1]

LargeRadius == 80
SmallRadius == 50
BallCenter ==
    VAdd(VDiv(VAdd(VAdd(P(0), P(1)), VAdd(P(4), P(5))), 4), <<0, 0, LargeRadius>>)
LeftWallCenter  == VAdd(VDiv(VAdd(P(0), P(4)), 2), <<0, 0, SmallRadius>>)
RightWallCenter == VAdd(VDiv(VAdd(P(1), P(5)), 2), <<0, 0, SmallRadius>>)
XLen == RightWallCenter[1] - LeftWallCenter[1]
LeftBallCenter  == VAdd(LeftWallCenter,  <<(2 * XLen) \div 7, 0, 0>>)
RightBallCenter == VSub(RightWallCenter, <<(2 * XLen) \div 7, 0, 0>>)

Opt(cond, prim) == IF cond THEN <<prim>> ELSE <<>>

\* the primitives pushed onto geometryList->mGeometry, in order
CornellPrimitives(aBoxMask) ==
    << Triangle(P(0), P(4), P(5), 5), Triangle(P(5), P(1), P(0), 5),
       Triangle(P(0), P(1), P(2), 5), Triangle(P(2), P(3), P(0), 5) >>
    \o (IF Has(aBoxMask, LightCeiling)
        THEN << Triangle(P(2), P(6), P(7), 0), Triangle(P(7), P(3), P(2), 1) >>
        ELSE << Triangle(P(2), P(6), P(7), 5), Triangle(P(7), P(3), P(2), 5) >>)
    \o << Triangle(P(3), P(7), P(4), 3), Triangle(P(4), P(0), P(3), 3),
          Triangle(P(1), P(5), P(6), 4), Triangle(P(6), P(2), P(1), 4) >>
    \o Opt(Has(aBoxMask, BallLargeMirror), Sphere(BallCenter, LargeRadius, 6))
    \o Opt(Has(aBoxMask, BallLargeGlass),  Sphere(BallCenter, LargeRadius, 7))
    \o Opt(Has(aBoxMask, BallMirror), Sphere(LeftBallCenter,  SmallRadius, 6))
    \o Opt(Has(aBoxMask, BallGlass),  Sphere(RightBallCenter, SmallRadius, 7))

\* the same list, computed once for each mask
CornellScenes == [m \in BoxMasks |-> CornellPrimitives(m)]
CornellGeometry(aBoxMask) == CornellScenes[aBoxMask]

\* if(light_ceiling): mLights.resize(2); mLights[0] = a; mLights[1] = b
CeilingLights(lights, a, b) ==
    [Resize(lights, 2) EXCEPT ![1] = a, ![2] = b]
\* a slip in the pairs inserted: light ids counted from 1
CeilingIndexFromOne(m) == Insert(Insert(m, 0, 1), 1, 2)
\* if(light_ceiling): the two inserts into mMaterial2Light
CeilingIndex(m) == Insert(Insert(m, 0, 0), 1, 1)

\* the Light objects one call creates, in order of creation
LightKinds(aBoxMask) ==
    (IF Has(aBoxMask, LightCeiling) THEN <<"AreaLight", "AreaLight">> ELSE <<>>)
    \o (IF Has(aBoxMask, LightSun) THEN <<"DirectionalLight">> ELSE <<>>)
    \o (IF Has(aBoxMask, LightPoint) THEN <<"PointLight">> ELSE <<>>)
    \o (IF Has(aBoxMask, LightBackground) THEN <<"BackgroundLight">> ELSE <<>>)

\* the state LoadCornellBox leaves, from the state it is called in
LoadCornellBox(aBoxMask) ==
    LET mask  == ResolveMask(aBoxMask)
        light_ceiling    == Has(mask, LightCeiling)
        light_sun        == Has(mask, LightSun)
        light_point      == Has(mask, LightPoint)
        light_background == Has(mask, LightBackground)
        \* delete mGeometry; new GeometryList
        h0   == NewObj(Delete(heap, mGeometry), "GeometryList")
        geo  == Len(h0)
        \* if(light_ceiling)
        h1   == IF light_ceiling THEN NewObj(NewObj(h0, "AreaLight"), "AreaLight")
                ELSE h0
        l1   == IF light_ceiling THEN CeilingLights(mLights, Len(h1) - 1, Len(h1))
                ELSE mLights
        \* if(light_sun)
        h2   == IF light_sun THEN NewObj(h1, "DirectionalLight") ELSE h1
        l2   == IF light_sun THEN Append(l1, Len(h2)) ELSE l1
        \* if(light_point)
        h3   == IF light_point THEN NewObj(h2, "PointLight") ELSE h2
        l3   == IF light_point THEN Append(l2, Len(h3)) ELSE l2
        \* if(light_background)
        h4   == IF light_background THEN NewObj(h3, "BackgroundLight") ELSE h3
        l4   == IF light_background THEN Append(l3, Len(h4)) ELSE l3
    IN  /\ mCamera' = TRUE
        /\ mMaterials' = mMaterials \o CornellMaterials
        /\ heap' = h4
        /\ mGeometry' = geo
        /\ geometry' = CornellGeometry(mask)
        /\ mLights' = l4
        /\ mMaterial2Light' = IF light_ceiling THEN CeilingIndex(mMaterial2Light)
                              ELSE mMaterial2Light
        /\ mBackground' = IF light_background THEN Len(h4) ELSE mBackground
        /\ UNCHANGED mSceneSphere

\* ------------------------------------------------------------ queries
\* the last call and its results; fields a call does not use keep these values
NoCall ==
    [op |-> "none", fault |-> FALSE,
     idx |-> 0, ptr |-> NULL,                              \* GetLightPtr
     tmin |-> 0, inLightID |-> 0, crossed |-> {},          \* Intersect
     hit |-> FALSE, dist |-> 0, matID |-> 0, lightID |-> 0,
     blockers |-> {}, tMax |-> 0, occluded |-> FALSE, by |-> -1]  \* Occluded

\* Scene() : mGeometry(NULL), mBackground(NULL); the containers start empty and
\* mSceneSphere is not yet computed
Init ==
    /\ pc = "live"
    /\ heap = <<>>
    /\ mGeometry = NULL
    /\ geometry = <<>>
    /\ mCamera = FALSE
    /\ mMaterials = <<>>
    /\ mLights = <<>>
    /\ mMaterial2Light = EmptyMap
    /\ mSceneSphere = [built |-> FALSE, mSceneCenter |-> <<0, 0, 0>>,
                       mSceneRadius |-> 0,
                       mInvSceneRadiusSqr |-> [num |-> 0, den |-> 1]]
    /\ mBackground = NULL
    /\ call = NoCall

\* a call of LoadCornellBox, while the heap has room for what it creates
Load ==
    /\ pc = "live"
    /\ \E aBoxMask \in BoxMasks :
          /\ Len(heap) + 1 + Len(LightKinds(ResolveMask(aBoxMask))) <= MaxObjects
          /\ LoadCornellBox(aBoxMask)
    /\ call' = NoCall
    /\ UNCHANGED pc

\* ~Scene() { delete mGeometry; }
Destroy ==
    /\ pc = "live"
    /\ pc' = "destroyed"
    /\ heap' = Delete(heap, mGeometry)
    /\ call' = NoCall
    /\ UNCHANGED <<mGeometry, geometry, mCamera, mMaterials, mLights,
                   mMaterial2Light, mSceneSphere, mBackground>>

GetLightCount == Len(mLights)
GetBackground == mBackground

\* aLightIdx = std::min<int>(aLightIdx, mLights.size()-1)
ClampLightIdx(aLightIdx) == Min2(aLightIdx, Len(mLights) - 1)

\* GetLightPtr: mLights[i] for i in range; for i out of range the read is
\* undefined: a fault, or whatever pointer value lies there
GetLightPtr ==
    /\ pc = "live"
    /\ call.op = "none"
    /\ \E aLightIdx \in (0 - MaxIdxSlack) .. (Len(mLights) + MaxIdxSlack) :
          LET i == ClampLightIdx(aLightIdx)
              c == [NoCall EXCEPT !.op = "GetLightPtr", !.idx = aLightIdx]
          IN  IF 0 <= i /\ i < Len(mLights)
              THEN /\ call' = [c EXCEPT !.ptr = mLights[i + 1]]
                   /\ pc' = pc
              ELSE \/ /\ call' = [c EXCEPT !.fault = TRUE]
                      /\ pc' = "fault"
                   \/ /\ \E garbage \in 0 .. (Len(heap) + 1) :
                            call' = [c EXCEPT !.ptr = garbage]
                      /\ pc' = pc
    /\ UNCHANGED <<heap, mGeometry, geometry, mCamera, mMaterials, mLights,
                   mMaterial2Light, mSceneSphere, mBackground>>

\* Vec3f bboxMin(1e36f), bboxMax(-1e36f): beyond every coordinate of the model
Huge == 10000

\* the sphere BuildSceneSphere derives from the box GrowBBox leaves.  Lengths
\* of the sphere are in half units (0.005), so that * 0.5f is exact; 1.f / x
\* is kept as the fraction num / den, and den = 0 is the division by zero.
SceneSphereOf(box) ==
    LET radius2 == LenSqr(VSub(box.hi, box.lo))
        radius  == Sqrt(radius2)
    IN  [built |-> TRUE,
         mSceneCenter |-> VAdd(box.hi, box.lo),
         mSceneRadius |-> radius,
         mInvSceneRadiusSqr |-> [num |-> 200 * 200, den |-> radius * radius]]

BuildSceneSphere ==
    /\ pc = "live"
    /\ IF mGeometry # NULL
       THEN /\ geometry # <<>>
            /\ mSceneSphere' =
                   SceneSphereOf(GrowBBox(geometry,
                                          [lo |-> <<Huge, Huge, Huge>>,
                                           hi |-> <<-Huge, -Huge, -Huge>>]))
            /\ pc' = pc
       ELSE \* mGeometry->GrowBBox through the null pointer
            /\ pc' = "fault"
            /\ UNCHANGED mSceneSphere
    /\ call' = NoCall
    /\ UNCHANGED <<heap, mGeometry, geometry, mCamera, mMaterials, mLights,
                   mMaterial2Light, mBackground>>

\* Scenes a builder other than LoadCornellBox may install through the public
\* member mGeometry: the triangle and the unit box of the test scenarios, and
\* a scene that is a single point.
BuilderScenes ==
    { << Triangle(<<-100, -100, 0>>, <<100, -100, 0>>, <<100, 100, 0>>, 5) >>,
      << Triangle(<<-100, -100, -100>>, <<100, 100, 100>>, <<100, -100, 0>>, 0) >>,
      << Triangle(<<30, 20, 10>>, <<30, 20, 10>>, <<30, 20, 10>>, 5) >>,
      << Sphere(<<0, 0, 0>>, 0, 5) >> }

SetGeometry ==
    /\ pc = "live"
    /\ mGeometry = NULL
    /\ Len(heap) + 1 <= MaxObjects
    /\ \E prims \in BuilderScenes :
          /\ heap' = NewObj(heap, "GeometryList")
          /\ mGeometry' = Len(heap) + 1
          /\ geometry' = prims
    /\ call' = NoCall
    /\ UNCHANGED <<pc, mCamera, mMaterials, mLights, mMaterial2Light,
                   mSceneSphere, mBackground>>

Next == Load \/ Destroy \/ BuildSceneSphere \/ SetGeometry

Spec == Init /\ [][Next]_vars

\* ------------------------------------------------------- ray queries
\* EPS_RAY, in units of the query line (the line's unit is EPS_RAY / 2)
EPS_RAY == 2

Dists == 0 .. MaxDist
\* the primitives a query line crosses, by their coordinate on the line: none,
\* one, or two
BlockerSets == {{}} \cup {{a, b} : a \in Dists, b \in Dists}

\* values oResult.lightID may hold when Intersect is called
InLightIDs == {-1, 1}

\* mGeometry->Intersect(aRay, oResult): the closest primitive the ray crosses
\* beyond tmin, or none.  The ray is given by that answer: the primitive (its
\* index in the list, 0 for none) and its distance.
GeometryIntersect(prims, aTMin) ==
    {[hit |-> FALSE, dist |-> 0, matID |-> 0]}
    \cup {[hit |-> TRUE, dist |-> d, matID |-> prims[i].matID] :
             i \in DOMAIN prims, d \in {aTMin + 1, MaxDist}}

\* the same call through a null mGeometry, when it does not fault
NullIntersect ==
    {[hit |-> h, dist |-> 0, matID |-> m] : h \in BOOLEAN, m \in {0, 5}}

\* lines 26-35 of Intersect: the light id of the hit material
LightIDOf(aMatID) ==
    IF aMatID \in DOMAIN mMaterial2Light THEN mMaterial2Light[aMatID] ELSE -1
\* the same without line 28, oResult.lightID = -1
AnnotateNoReset(hit, aMatID, inLightID) ==
    IF hit /\ aMatID \in DOMAIN mMaterial2Light
    THEN mMaterial2Light[aMatID] ELSE inLightID
Annotate(hit, aMatID, inLightID) ==
    IF hit THEN LightIDOf(aMatID) ELSE inLightID

Intersect ==
    /\ pc = "live"
    /\ call.op = "none"
    /\ \E aTMin \in {0, EPS_RAY}, inLightID \in InLightIDs :
          LET c == [NoCall EXCEPT !.op = "Intersect", !.tmin = aTMin,
                                  !.inLightID = inLightID, !.lightID = inLightID]
          IN  \/ /\ mGeometry = NULL
                 /\ call' = [c EXCEPT !.fault = TRUE]
                 /\ pc' = "fault"
              \/ /\ \E r \in (IF mGeometry = NULL THEN NullIntersect
                              ELSE GeometryIntersect(geometry, aTMin)) :
                       call' = [c EXCEPT !.hit = r.hit, !.dist = r.dist,
                                         !.matID = r.matID,
                                         !.lightID = Annotate(r.hit, r.matID, inLightID)]
                 /\ pc' = pc
    /\ UNCHANGED <<heap, mGeometry, geometry, mCamera, mMaterials, mLights,
                   mMaterial2Light, mSceneSphere, mBackground>>

\* slips in the offset of the ray origin: applied twice, and backwards
OccludedOrgTwice(aPoint, aDir) == aPoint + aDir * (2 * EPS_RAY)
OccludedOrgBehind(aPoint, aDir) == aPoint - aDir * EPS_RAY
\* a far bound that is not shrunk
OccludedBoundFull(aTMax) == aTMax

\* ray.org = aPoint + aDir * EPS_RAY, on the line where aPoint is 0 and aDir is 1
OccludedOrg(aPoint, aDir) == aPoint + aDir * EPS_RAY
\* isect.dist = aTMax - 2*EPS_RAY
OccludedBound(aTMax) == aTMax - 2 * EPS_RAY

\* GeometryList::IntersectP(ray, isect): the primitives whose distance t from
\* the ray origin satisfies tmin < t < isect.dist; any of them ends the search
IntersectP(blockers, org, aTMin, bound) ==
    {b \in blockers : aTMin < b - org /\ b - org < bound}

Occluded ==
    /\ pc = "live"
    /\ call.op = "none"
    /\ \E blockers \in BlockerSets, aTMax \in Dists :
          LET c == [NoCall EXCEPT !.op = "Occluded", !.blockers = blockers,
                                  !.tMax = aTMax]
              hits == IntersectP(blockers, OccludedOrg(0, 1), 0, OccludedBound(aTMax))
          IN  /\ Cardinality(blockers) <= Len(geometry)
              /\ IF mGeometry # NULL
                 THEN /\ pc' = pc
                      /\ IF hits = {}
                         THEN call' = c
                         ELSE \E b \in hits :
                                 call' = [c EXCEPT !.occluded = TRUE, !.by = b]
                 ELSE \/ /\ call' = [c EXCEPT !.fault = TRUE]
                         /\ pc' = "fault"
                      \/ /\ \E o \in BOOLEAN : call' = [c EXCEPT !.occluded = o]
                         /\ pc' = pc
    /\ UNCHANGED <<heap, mGeometry, geometry, mCamera, mMaterials, mLights,
                   mMaterial2Light, mSceneSphere, mBackground>>

\* The query phase: the scene is loaded once, then queried.
QueryLoad ==
    /\ pc = "live"
    /\ call.op = "none"
    /\ mGeometry = NULL
    /\ \E aBoxMask \in BoxMasks : LoadCornellBox(aBoxMask)
    /\ call' = NoCall
    /\ UNCHANGED pc

\* the caller takes the result of the query it made; the next call may start
Return ==
    /\ pc = "live"
    /\ call.op # "none"
    /\ call' = NoCall
    /\ UNCHANGED <<pc, heap, mGeometry, geometry, mCamera, mMaterials, mLights,
                   mMaterial2Light, mSceneSphere, mBackground>>

QueryNext == QueryLoad \/ Intersect \/ Occluded \/ GetLightPtr \/ Return

QuerySpec == Init /\ [][QueryNext]_vars

\* ------------------------------------------------------------- claims
Clamp(i, lo, hi) == Max2(lo, Min2(i, hi))
IsLight(p) ==
    /\ p \in DOMAIN heap
    /\ heap[p].kind # "GeometryList"
    /\ heap[p].deleted = 0

\* C1: when Intersect reports a hit, the returned lightID is the value the
\* Material->Light index maps the hit material id to, and is -1 when the
\* material id is not a key of the index, whatever lightID held before.
C1_LightIDOfHit ==
    (call.op = "Intersect" /\ ~call.fault /\ call.hit) =>
        /\ call.matID \in DOMAIN mMaterial2Light
               => call.lightID = mMaterial2Light[call.matID]
        /\ call.matID \notin DOMAIN mMaterial2Light => call.lightID = -1
\* a hit on the back wall (material 5, no light) in a scene whose index is
\* not empty, with a result that held lightID 1 before the call
C1_Witness ==
    /\ call.op = "Intersect" /\ call.hit
    /\ call.matID = 5 /\ call.inLightID = 1 /\ call.lightID = -1
    /\ DOMAIN mMaterial2Light = {0, 1}

\* C2: on a Scene without a geometry aggregate, Intersect returns no-hit and
\* Occluded returns false, and neither faults.
C2_EmptySceneQueries ==
    (mGeometry = NULL /\ call.op \in {"Intersect", "Occluded"}) =>
        ~call.fault /\ ~call.hit /\ ~call.occluded

\* C3 as stated: Occluded returns true whenever a blocker lies at a distance
\* d > 0 from the point with d < aTMax - 2*EPS_RAY.
C3_AnyBlockerBeforeBound ==
    (call.op = "Occluded" /\ mGeometry # NULL /\
     \E d \in call.blockers : 0 < d /\ d < call.tMax - 2 * EPS_RAY)
        => call.occluded
\* C3 amended: for a unit direction, Occluded returns true whenever a blocker
\* lies at a distance d from the point with EPS_RAY < d < aTMax - 2*EPS_RAY.
C3_BlockerPastOffset ==
    (call.op = "Occluded" /\ mGeometry # NULL /\
     \E d \in call.blockers : EPS_RAY < d /\ d < call.tMax - 2 * EPS_RAY)
        => call.occluded
\* a blocker nearer than EPS_RAY that is passed over and one past the offset
\* that is reported
C3_Witness ==
    /\ call.op = "Occluded" /\ call.occluded
    /\ call.blockers = {1, EPS_RAY + 1} /\ call.by = EPS_RAY + 1
    /\ call.tMax > 3 * EPS_RAY + 1

\* C4: Occluded returns false whenever the nearest blocker along the (unit)
\* direction is at a distance >= aTMax from the point.
C4_NoBlockerBeforeTMax ==
    (call.op = "Occluded" /\ call.blockers # {} /\
     \A d \in call.blockers : d >= call.tMax)
        => ~call.occluded
\* the light surface exactly at distance aTMax, beyond the offsets
C4_Witness ==
    /\ call.op = "Occluded" /\ ~call.occluded
    /\ call.blockers = {call.tMax} /\ call.tMax > 2 * EPS_RAY

\* C5: for a point on a surface (a blocker at distance 0) Occluded never
\* reports that surface: it is not the primitive that ends the search, and
\* alone it does not occlude.
C5_NoSelfOcclusion ==
    (call.op = "Occluded" /\ 0 \in call.blockers) =>
        /\ call.by # 0
        /\ call.blockers = {0} => ~call.occluded
\* the point's own surface alone, with a far bound that leaves room past it
C5_Witness ==
    /\ call.op = "Occluded" /\ ~call.occluded
    /\ call.blockers = {0} /\ call.tMax > 3 * EPS_RAY

\* C6: for a non-empty light collection GetLightPtr(i) returns the light at i
\* clamped to [0, count-1], for every integer i, without an out-of-range read.
C6_ClampedLight ==
    (call.op = "GetLightPtr" /\ GetLightCount > 0) =>
        /\ ~call.fault
        /\ call.ptr = mLights[Clamp(call.idx, 0, GetLightCount - 1) + 1]

\* C7: BuildSceneSphere never computes mInvSceneRadiusSqr as 1 / 0.
C7_NoDivisionByZero ==
    mSceneSphere.built => mSceneSphere.mInvSceneRadiusSqr.den # 0

\* C8: after ~Scene every object the Scene created (the geometry aggregate
\* and every Light) has been destroyed, exactly once.
C8_TeardownDestroysAll ==
    pc = "destroyed" => \A p \in DOMAIN heap : heap[p].deleted = 1

\* C9: every value v of the Material->Light index satisfies
\* 0 <= v < GetLightCount(), and mLights[v] is a light (not null).
C9_IndexValuesValid ==
    \A k \in DOMAIN mMaterial2Light :
        LET v == mMaterial2Light[k]
        IN  /\ 0 <= v /\ v < GetLightCount
            /\ mLights[v + 1] # NULL
            /\ IsLight(mLights[v + 1])
\* the ceiling lights loaded over a collection that already held a light of
\* an earlier load
C9_Witness ==
    /\ DOMAIN mMaterial2Light = {0, 1}
    /\ GetLightCount = 2
    /\ \E p \in DOMAIN heap : heap[p].kind = "DirectionalLight" /\ p < mLights[1]

\* C10: the background light is none or an element of the light collection.
C10_BackgroundInLights ==
    GetBackground = NULL \/ \E i \in DOMAIN mLights : mLights[i] = GetBackground

====
